---- MODULE Spec2Model ----
(***************************************************************************)
(* Model of the Tender Engine compliance pipeline:                         *)
(*   - ai_compare.py : evaluate_requirement / evaluate_candidate           *)
(*   - main.py       : analyze_chunk / combine_chunk_results / upload_file *)
(*   - chunker.py    : chunk_text                                          *)
(*   - extractor_zip.py    : extract_zip                                   *)
(*   - candidate_parser.py : parse_candidate_zip, parse_multiple_candidates*)
(*   - main.py       : safe_extract_zip and the extraction of upload_file  *)
(* Confidence values are kept in thousandths (0.667 is 667), which is the  *)
(* precision round(x, 3) leaves.                                           *)
(***************************************************************************)
EXTENDS Integers, Sequences, FiniteSets, TLC

\* ------------------------------------------------------------------ bounds
MaxReqs == 3
MaxChunks == 3
MaxLen == 8
MaxSize == 6
MaxEntries == 4
MaxCandidates == 4
MaxNames == 3
WideSize == 10

\* ------------------------------------------------------------- vocabulary
VerdictStatuses == {"green", "yellow", "red"}
NoKey == "<absent>"
Categories == <<"legal", "technical">>

\* What one classifier call can produce: an exception carrying the text
\* str(e) (which may be empty), a body that json.loads rejects, a JSON value
\* that is not an object, or a JSON object whose "status" is one of the three
\* verdict words, some other string, or missing.
RaiseMessages == {"", "Request timed out."}
JsonDecodeMessage == "Expecting value: line 1 column 1 (char 0)"
ModelStatuses == VerdictStatuses \cup {"maybe", NoKey}

Responses ==
    {[kind |-> "raise", status |-> NoKey, msg |-> m] : m \in RaiseMessages}
    \cup {[kind |-> "notjson", status |-> NoKey, msg |-> JsonDecodeMessage]}
    \cup {[kind |-> "nondict", status |-> NoKey, msg |-> ""]}
    \cup {[kind |-> "dict", status |-> s, msg |-> "model note"] : s \in ModelStatuses}

VARIABLES
    \* ai_compare.evaluate_candidate
    requirements,   \* flattened requirements dict: <<category, req>> in dict order
    pc,             \* position of evaluate_candidate
    results,        \* the findings list
    total_reqs, green, yellow, red,
    evaluation,     \* the returned dict (status, icon, confidence, counts)
    calls,          \* classifier invocations made for each unit, in order
    outcomes,       \* what the classifier did for each unit, in order
    \* main.upload_file
    chunk_total,    \* number of chunks split_text_into_chunks returned
    upc,            \* position of upload_file
    chunk_results,  \* analyze_chunk results, in chunk order
    final,          \* the dict combine_chunk_results returned
    chunk_calls,    \* model invocations made for each chunk, in order
    chunk_outcomes, \* what the model did for each chunk, in order
    \* chunker.chunk_text
    CHUNK_SIZE, CHUNK_OVERLAP,   \* the configuration the call runs under
    text,           \* the argument, then the stripped text
    cpc,            \* position of chunk_text
    start, length,
    chunks,         \* the list being returned
    windows,        \* [start, end) taken by each loop iteration, in order
    \* extractor_zip.extract_zip
    topKind,        \* what the file at `path` is: a ZIP, a corrupt file, an oversized ZIP
    archive,        \* the entries of the ZIP, nested ones included, in listing order
    zpc,            \* position of the outermost extract_zip call
    zstack,         \* the active extract_zip calls, outermost first
    zresult,        \* the tuple the outermost call returned
    zerror,         \* the exception that left the outermost call
    temps,          \* the files mkstemp created that still exist
    \* candidate_parser.parse_multiple_candidates
    url_list,       \* the argument: what lies behind each URL
    cand_pc,        \* position of parse_multiple_candidates
    cand_i,         \* the URL the for loop is at
    parsed,         \* the results list
    cand_log,       \* the error messages logged
    \* main.upload_file up to the chunking, and main.safe_extract_zip
    upload,         \* the uploaded file
    sx_pc,          \* position of upload_file
    sx_i,           \* the name the for loop of safe_extract_zip is at
    total_size,     \* characters counted by safe_extract_zip
    final_text,     \* len() of every text safe_extract_zip kept, in order
    extracted_len,  \* len(text) as extracted (line 388)
    text_len,       \* len(text) as chunked
    response        \* the JSON body returned

cmpVars == <<requirements, pc, results, total_reqs, green, yellow, red,
             evaluation, calls, outcomes>>

upVars == <<chunk_total, upc, chunk_results, final, chunk_calls, chunk_outcomes>>

chVars == <<CHUNK_SIZE, CHUNK_OVERLAP, text, cpc, start, length, chunks, windows>>

zipVars == <<topKind, archive, zpc, zstack, zresult, zerror, temps>>

candVars == <<url_list, cand_pc, cand_i, parsed, cand_log>>

sxVars == <<upload, sx_pc, sx_i, total_size, final_text, extracted_len, text_len,
           response>>

extVars == <<zipVars, candVars, sxVars>>

\* everything extract_zip leaves alone
zipRest == <<cmpVars, upVars, chVars, candVars, sxVars>>

\* everything parse_multiple_candidates leaves alone
candRest == <<cmpVars, upVars, chVars, zipVars, sxVars>>

\* everything the extraction part of upload_file leaves alone
sxRest == <<cmpVars, upVars, chVars, zipVars, candVars>>

vars == <<cmpVars, upVars, chVars, extVars>>

\* ---------------------------------------------------------------- helpers
Max2(a, b) == IF a >= b THEN a ELSE b

\* round(n / d, 3) in thousandths.  A tie (1000n/d = k + 1/2) needs 16 | d,
\* so for the list lengths explored here round-half-even and this agree.
Round3(n, d) == (2000 * n + d) \div (2 * d)

\* dict.get("status", "yellow")
GetStatus(rec) == IF rec.status = NoKey THEN "yellow" ELSE rec.status

Icon(status) ==
    IF status = "green" THEN "green-circle"
    ELSE IF status = "yellow" THEN "yellow-circle" ELSE "red-circle"

\* ---------------------------------------------- ai_compare.evaluate_requirement
FailSafeVerdict(note) ==
    [kind |-> "dict", status |-> "yellow", icon |-> Icon("yellow"),
     issue |-> "AI evaluation error",
     risk |-> "Requirement could not be fully evaluated",
     note |-> note]

\* Variant: a failed call is repeated once before the fail-safe verdict.
evaluate_requirement_retry(resp) ==
    IF resp.kind \in {"raise", "notjson"}
    THEN [result |-> FailSafeVerdict(resp.msg), calls |-> 2]
    ELSE [result |-> [kind |-> resp.kind, status |-> resp.status,
                      icon |-> "model icon",
                      issue |-> "model issue", risk |-> "model risk",
                      note |-> resp.msg],
          calls |-> 1]

\* One classifier call, json.loads, and the except branch.
evaluate_requirement(resp) ==
    IF resp.kind \in {"raise", "notjson"}
    THEN [result |-> FailSafeVerdict(resp.msg), calls |-> 1]
    ELSE [result |-> [kind |-> resp.kind, status |-> resp.status,
                      icon |-> "model icon",
                      issue |-> "model issue", risk |-> "model risk",
                      note |-> resp.msg],
          calls |-> 1]

\* ------------------------------------------------ ai_compare.evaluate_candidate
\* Variant: a green verdict clears the yellow counter.
CountStatus_reset(c, status) ==
    IF status = "green" THEN [c EXCEPT !.green = @ + 1, !.yellow = 0]
    ELSE IF status = "yellow" THEN [c EXCEPT !.yellow = @ + 1]
    ELSE [c EXCEPT !.red = @ + 1]

\* The counter update of one loop iteration (lines 131-137).
CountStatus(c, status) ==
    IF status = "green" THEN [c EXCEPT !.green = @ + 1]
    ELSE IF status = "yellow" THEN [c EXCEPT !.yellow = @ + 1]
    ELSE [c EXCEPT !.red = @ + 1]

\* Variant: the yellow test comes before the red test.
FinalDecision_yellowFirst(g, y, r) ==
    IF y > 0 THEN "yellow" ELSE IF r > 0 THEN "red" ELSE "green"

\* FINAL DECISION LOGIC (lines 140-148).
FinalDecision(g, y, r) ==
    IF r > 0 THEN "red" ELSE IF y > 0 THEN "yellow" ELSE "green"

\* Variant: the quotient is truncated instead of rounded.
Confidence_floor(g, total) == (1000 * g) \div Max2(1, total)

\* Confidence = green / total (line 151).
Confidence(g, total) == Round3(g, Max2(1, total))

\* The requirement dictionaries explored: k-th item of a category is "r<k>".
ReqName(k) == <<"r1", "r2", "r3", "r4", "r5">>[k]
Flatten(nLegal, nTech) ==
    [k \in 1..(nLegal + nTech) |->
        IF k <= nLegal THEN <<Categories[1], ReqName(k)>>
        ELSE <<Categories[2], ReqName(k - nLegal)>>]

\* Lines 114-151 run over a given list of verdicts: the counters after the loop,
\* the final decision and the confidence.
RECURSIVE CountAll(_)
CountAll(verdicts) ==
    IF verdicts = <<>> THEN [green |-> 0, yellow |-> 0, red |-> 0]
    ELSE CountStatus(CountAll(SubSeq(verdicts, 1, Len(verdicts) - 1)),
                     GetStatus(verdicts[Len(verdicts)]))

Aggregate(verdicts) ==
    LET c == CountAll(verdicts)
    IN  [status |-> FinalDecision(c.green, c.yellow, c.red),
         confidence |-> Confidence(c.green, Len(verdicts)),
         green |-> c.green, yellow |-> c.yellow, red |-> c.red]

NoEvaluation == [status |-> "none"]

InitCompare ==
    /\ \E nLegal \in 0..MaxReqs, nTech \in 0..MaxReqs :
          /\ nLegal + nTech <= MaxReqs
          /\ requirements = Flatten(nLegal, nTech)
    /\ pc = "loop"
    /\ results = <<>>
    /\ total_reqs = 0
    /\ green = 0
    /\ yellow = 0
    /\ red = 0
    /\ evaluation = NoEvaluation
    /\ calls = <<>>
    /\ outcomes = <<>>

\* One iteration of the nested for loop (lines 121-137): the classifier is
\* asked about the next requirement, the result is tagged, appended and counted.
\* A parsed value that is not a dict makes the item assignment of line 126
\* raise TypeError, which nothing in evaluate_candidate catches.
EvaluateNext ==
    /\ pc = "loop"
    /\ total_reqs < Len(requirements)
    /\ \E resp \in Responses :
        LET req == requirements[total_reqs + 1]
            ret == evaluate_requirement(resp)
            er  == ret.result
            c   == CountStatus([green |-> green, yellow |-> yellow, red |-> red],
                               GetStatus(er))
        IN  /\ total_reqs' = total_reqs + 1
            /\ calls' = Append(calls, ret.calls)
            /\ outcomes' = Append(outcomes, resp)
            /\ IF er.kind = "nondict"
               THEN /\ pc' = "raised"
                    /\ UNCHANGED <<results, green, yellow, red>>
               ELSE /\ pc' = "loop"
                    /\ results' = Append(results,
                           [status |-> er.status, icon |-> er.icon,
                            issue |-> er.issue, risk |-> er.risk, note |-> er.note,
                            requirement |-> req[2], category |-> req[1]])
                    /\ green' = c.green
                    /\ yellow' = c.yellow
                    /\ red' = c.red
    /\ UNCHANGED <<requirements, evaluation, upVars, chVars, extVars>>

\* Lines 139-200: final decision, confidence, summary call (its failure is
\* caught and replaced by the empty summary), return.
ReturnEvaluation ==
    /\ pc = "loop"
    /\ total_reqs = Len(requirements)
    /\ \E summaryOk \in BOOLEAN :
        evaluation' =
            [status |-> FinalDecision(green, yellow, red),
             icon |-> Icon(FinalDecision(green, yellow, red)),
             confidence |-> Confidence(green, total_reqs),
             requirements_total |-> total_reqs,
             green |-> green, yellow |-> yellow, red |-> red,
             findings |-> results,
             summary |-> IF summaryOk THEN "model summary" ELSE "empty summary"]
    /\ pc' = "done"
    /\ UNCHANGED <<requirements, results, total_reqs, green, yellow, red,
                   calls, outcomes, upVars, chVars, extVars>>

\* ------------------------------------------------------- main.analyze_chunk
\* The two model calls of analyze_chunk: the analysis call, then (only when the
\* first returned) the structuring call whose output is parsed.  "reasonOk"
\* tells whether the parsed "reason" is an object that has .get.
NoResponse == [kind |-> "none", status |-> NoKey, msg |-> ""]
AttributeMessage == "object has no attribute 'get'"

ChunkOutcomes ==
    {[first |-> "raise", msg |-> m, second |-> NoResponse, reasonOk |-> TRUE] :
        m \in RaiseMessages}
    \cup {[first |-> "ok", msg |-> "", second |-> r, reasonOk |-> TRUE] :
            r \in Responses}
    \cup {[first |-> "ok", msg |-> "", second |-> r, reasonOk |-> FALSE] :
            r \in {x \in Responses : x.kind = "dict"}}

ChunkFailSafe(index, note) ==
    [id |-> index, status |-> "yellow", icon |-> Icon("yellow"),
     issue |-> "AI processing error",
     risk |-> "Chunk could not be fully evaluated",
     note |-> note]

analyze_chunk(o, index) ==
    IF o.first = "raise"
    THEN [result |-> ChunkFailSafe(index, o.msg), calls |-> 1]
    ELSE IF o.second.kind \in {"raise", "notjson"}
    THEN [result |-> ChunkFailSafe(index, o.second.msg), calls |-> 2]
    ELSE IF o.second.kind = "nondict" \/ ~o.reasonOk
    THEN [result |-> ChunkFailSafe(index, AttributeMessage), calls |-> 2]
    ELSE [result |-> [id |-> index, status |-> GetStatus(o.second),
                      icon |-> Icon(GetStatus(o.second)),
                      issue |-> "model issue", risk |-> "model risk",
                      note |-> o.second.msg],
          calls |-> 2]

\* ----------------------------------------------- main.combine_chunk_results
\* list.count(x)
Count(statuses, x) == Cardinality({k \in 1..Len(statuses) : statuses[k] = x})

StatusesOf(recs) == [k \in 1..Len(recs) |-> recs[k].status]

combine_chunk_results(chunk_list, summaryOk) ==
    LET statuses == StatusesOf(chunk_list)
        green_count == Count(statuses, "green")
        yellow_count == Count(statuses, "yellow")
        red_count == Count(statuses, "red")
        res == IF red_count > 0 THEN "red"
               ELSE IF yellow_count > 0 THEN "yellow" ELSE "green"
    IN  [result |-> res, icon |-> Icon(res),
         confidence |-> Round3(green_count, Max2(1, Len(chunk_list))),
         summary |-> IF summaryOk THEN "model summary" ELSE "empty summary"]

\* ---------------------------------------------------------- main.upload_file
NoFinal == [result |-> "none"]

IdleCompare ==
    /\ requirements = <<>>
    /\ pc = "idle"
    /\ results = <<>>
    /\ total_reqs = 0
    /\ green = 0
    /\ yellow = 0
    /\ red = 0
    /\ evaluation = NoEvaluation
    /\ calls = <<>>
    /\ outcomes = <<>>

IdleUpload ==
    /\ chunk_total = 0
    /\ upc = "idle"
    /\ chunk_results = <<>>
    /\ final = NoFinal
    /\ chunk_calls = <<>>
    /\ chunk_outcomes = <<>>

InitUpload ==
    /\ chunk_total \in 0..MaxChunks
    /\ upc = "analyze"
    /\ chunk_results = <<>>
    /\ final = NoFinal
    /\ chunk_calls = <<>>
    /\ chunk_outcomes = <<>>

\* One iteration of the loop of lines 399-401.
AnalyzeNext ==
    /\ upc = "analyze"
    /\ Len(chunk_results) < chunk_total
    /\ \E o \in ChunkOutcomes :
        LET ret == analyze_chunk(o, Len(chunk_results) + 1)
        IN  /\ chunk_results' = Append(chunk_results, ret.result)
            /\ chunk_calls' = Append(chunk_calls, ret.calls)
            /\ chunk_outcomes' = Append(chunk_outcomes, o)
    /\ UNCHANGED <<chunk_total, upc, final, cmpVars, chVars, extVars>>

\* Lines 404-421.
CombineResults ==
    /\ upc = "analyze"
    /\ Len(chunk_results) = chunk_total
    /\ \E summaryOk \in BOOLEAN :
          final' = combine_chunk_results(chunk_results, summaryOk)
    /\ upc' = "done"
    /\ UNCHANGED <<chunk_total, chunk_results, chunk_calls, chunk_outcomes, cmpVars, chVars, extVars>>

\* ------------------------------------------------------- chunker.chunk_text
\* Texts are sequences over a plain character, the sentence terminator and the
\* newline; the newline is the whitespace character str.strip removes.
Chars == {"a", ".", "\n"}
Whitespace == {"\n"}

MaxIters == MaxLen + 2

SetMin(S) == CHOOSE x \in S : \A y \in S : x <= y
SetMax(S) == CHOOSE x \in S : \A y \in S : x >= y

\* str.strip()
Strip(t) ==
    LET keep == {k \in 1..Len(t) : t[k] \notin Whitespace}
    IN  IF keep = {} THEN <<>> ELSE SubSeq(t, SetMin(keep), SetMax(keep))

\* t[a:b] for 0 <= a <= b
Slice(t, a, b) == SubSeq(t, a + 1, IF b < Len(t) THEN b ELSE Len(t))

\* str.rfind(ch): 0-based index of the last occurrence, -1 if none
RFind(t, ch) ==
    LET at == {k \in 1..Len(t) : t[k] = ch}
    IN  IF at = {} THEN -1 ELSE SetMax(at) - 1

\* Variant: the boundary has to lie past the middle of the window only.
PastBoundaryRatio_half(cut_pos, size) == 2 * cut_pos > size

\* cut_pos > CHUNK_SIZE * 0.6 (line 40), in integers
PastBoundaryRatio(cut_pos, size) == 5 * cut_pos > 3 * size

\* Lines 30-42: the window of one iteration and its text.
Window(t, from, len, size) ==
    LET end0 == from + size
        chunk0 == Slice(t, from, end0)
        cut_pos == Max2(RFind(chunk0, "."), RFind(chunk0, "\n"))
    IN  IF end0 < len /\ PastBoundaryRatio(cut_pos, size)
        THEN [chunk |-> Slice(chunk0, 0, cut_pos + 1), end |-> from + cut_pos + 1]
        ELSE [chunk |-> chunk0, end |-> end0]

\* Variant: the overlap is taken off twice.
NextStart_twice(end, overlap) == Max2(0, end - 2 * overlap)

\* Lines 52-54: move start forward with overlap, not below 0.
NextStart(end, overlap) == IF end - overlap < 0 THEN 0 ELSE end - overlap

RECURSIVE TextsOfLen(_)
TextsOfLen(n) ==
    IF n = 0 THEN {<<>>}
    ELSE {Append(t, c) : t \in TextsOfLen(n - 1), c \in Chars}

Texts == UNION {TextsOfLen(n) : n \in 0..MaxLen}

IdleChunker ==
    /\ CHUNK_SIZE = 5000
    /\ CHUNK_OVERLAP = 300
    /\ text = <<>>
    /\ cpc = "idle"
    /\ start = 0
    /\ length = 0
    /\ chunks = <<>>
    /\ windows = <<>>

InitChunker ==
    /\ CHUNK_SIZE \in 1..MaxSize
    /\ CHUNK_OVERLAP \in 0..(CHUNK_SIZE - 1)
    /\ text \in Texts
    /\ cpc = "entry"
    /\ start = 0
    /\ length = 0
    /\ chunks = <<>>
    /\ windows = <<>>

\* A wider window with every overlap, over the texts of one character more
\* than the window made of letters and full stops.
RECURSIVE SentencesOfLen(_)
SentencesOfLen(n) ==
    IF n = 0 THEN {<<>>}
    ELSE {Append(t, c) : t \in SentencesOfLen(n - 1), c \in {"a", "."}}

InitChunkerWide ==
    /\ CHUNK_SIZE = WideSize
    /\ CHUNK_OVERLAP \in 0..(CHUNK_SIZE - 1)
    /\ text \in SentencesOfLen(WideSize + 1)
    /\ cpc = "entry"
    /\ start = 0
    /\ length = 0
    /\ chunks = <<>>
    /\ windows = <<>>

\* Lines 16-26: the empty text returns at once, otherwise the text is stripped.
ChunkEnter ==
    /\ cpc = "entry"
    /\ IF text = <<>>
       THEN /\ cpc' = "done"
            /\ UNCHANGED <<text, length>>
       ELSE /\ text' = Strip(text)
            /\ length' = Len(Strip(text))
            /\ cpc' = "loop"
    /\ start' = 0
    /\ chunks' = <<>>
    /\ UNCHANGED <<CHUNK_SIZE, CHUNK_OVERLAP, windows, cmpVars, upVars, extVars>>

\* Lines 28-54: one iteration of the while loop.
ChunkStep ==
    /\ cpc = "loop"
    /\ start < length
    /\ Len(windows) < MaxIters
    /\ LET w == Window(text, start, length, CHUNK_SIZE)
           chunk == Strip(w.chunk)
       IN  /\ chunks' = IF chunk # <<>> THEN Append(chunks, chunk) ELSE chunks
           /\ windows' = Append(windows, [start |-> start, end |-> w.end])
           /\ start' = NextStart(w.end, CHUNK_OVERLAP)
    /\ UNCHANGED <<CHUNK_SIZE, CHUNK_OVERLAP, text, cpc, length, cmpVars, upVars, extVars>>

\* Lines 28, 56-57: the loop condition fails and the chunks are returned.
ChunkReturn ==
    /\ cpc = "loop"
    /\ start >= length
    /\ cpc' = "done"
    /\ UNCHANGED <<CHUNK_SIZE, CHUNK_OVERLAP, text, start, length, chunks, windows,
                   cmpVars, upVars, extVars>>

\* ------------------------------------------------ extractor_zip.extract_zip
MAX_ZIP_FILES == 100
MAX_ZIP_DEPTH == 3
ALLOWED_EXTENSIONS == {".pdf", ".docx", ".edoc", ".txt", ".zip"}

\* The file at `path`: a ZIP, a file that is not a ZIP, or a ZIP that lists more
\* than MAX_ZIP_FILES names.  The members explored: a text file, a PDF the
\* decoder cannot read, a picture, a member whose bytes cannot be read back
\* (bad CRC), a ZIP, and a file named .zip that is not a ZIP.
ZipKinds == {"zip", "zip_bad", "zip_big"}
EntryKinds == {"txt", "pdf_bad", "png", "unreadable", "zip", "zip_bad"}

\* os.path.splitext(item)[1].lower() (line 62)
Ext(kind) ==
    CASE kind \in {"txt", "unreadable"} -> ".txt"
      [] kind = "pdf_bad" -> ".pdf"
      [] kind = "png" -> ".png"
      [] OTHER -> ".zip"

\* An archive is written as the list of all its entries, every nested ZIP
\* followed by its own entries one level deeper.  Entry k stands for the
\* member name and, for a text file, for its content.
NextEntries(a) ==
    LET deepest == IF a = <<>> THEN 1
                   ELSE a[Len(a)].level + (IF a[Len(a)].kind = "zip" THEN 1 ELSE 0)
    IN  [kind : EntryKinds, level : 1..deepest]

RECURSIVE ArchivesOfLen(_)
ArchivesOfLen(n) ==
    IF n = 0 THEN {<<>>}
    ELSE UNION {{Append(a, e) : e \in NextEntries(a)} : a \in ArchivesOfLen(n - 1)}

Archives == UNION {ArchivesOfLen(n) : n \in 0..MaxEntries}

RECURSIVE SortedSeq(_)
SortedSeq(S) ==
    IF S = {} THEN <<>> ELSE <<SetMin(S)>> \o SortedSeq(S \ {SetMin(S)})

\* z.namelist() of the ZIP stored as entry p (p = 0: the file at `path`)
Namelist(a, p) ==
    LET lv == IF p = 0 THEN 0 ELSE a[p].level
        inside == {j \in (p + 1)..Len(a) : \A i \in (p + 1)..j : a[i].level > lv}
    IN  SortedSeq({j \in inside : a[j].level = lv + 1})

\* len(namelist) (line 54)
NameCount(a, p, kind) ==
    IF kind = "zip_big" THEN MAX_ZIP_FILES + 1 ELSE Len(Namelist(a, p))

\* Lines 45-57: what entering extract_zip(file, depth) does before the loop:
\* ValueError on depth, BadZipFile from zipfile.ZipFile, ValueError on count.
EnterOutcome(a, p, kind, depth) ==
    IF depth > MAX_ZIP_DEPTH THEN "depth"
    ELSE IF kind = "zip_bad" THEN "BadZipFile"
    ELSE IF NameCount(a, p, kind) > MAX_ZIP_FILES THEN "count"
    ELSE "ok"

\* Lines 48-52: the locals of a call that got past the checks.
NewFrame(a, p, depth) ==
    [node |-> p, depth |-> depth, namelist |-> Namelist(a, p), i |-> 1,
     combined_text |-> <<>>, files_collected |-> <<>>]

\* ext.replace(".", "") (line 81)
TypeOf(ext) ==
    CASE ext = ".txt" -> "txt"
      [] ext = ".pdf" -> "pdf"
      [] ext = ".png" -> "png"
      [] OTHER -> "zip"

\* Lines 78-82
FileInfo(a, item) == [name |-> item, type |-> TypeOf(Ext(a[item].kind))]

\* Lines 85-95: the text of a leaf; every decoder returns "" when it fails.
LeafText(a, item) == IF a[item].kind = "txt" THEN <<item>> ELSE <<>>

\* Variant: the nested archive's text and files are put in front.
MergeNested_front(frame, nested) ==
    [frame EXCEPT !.combined_text = nested.combined_text \o @,
                  !.files_collected = nested.files_collected \o @,
                  !.i = @ + 1]

\* Lines 98-100: the caller takes the nested call's return value.
MergeNested(frame, nested) ==
    [frame EXCEPT !.combined_text = @ \o nested.combined_text,
                  !.files_collected = @ \o nested.files_collected,
                  !.i = @ + 1]

NoZipResult == [combined_text |-> <<>>, files_collected |-> <<>>]
NoZipError == [kind |-> "none", at |-> 0, depth |-> 0]

IdleZip ==
    /\ topKind = "zip"
    /\ archive = <<>>
    /\ zpc = "idle"
    /\ zstack = <<>>
    /\ zresult = NoZipResult
    /\ zerror = NoZipError
    /\ temps = {}

InitZip ==
    /\ topKind \in ZipKinds
    /\ archive \in (IF topKind = "zip" THEN Archives ELSE {<<>>})
    /\ zpc = "call"
    /\ zstack = <<>>
    /\ zresult = NoZipResult
    /\ zerror = NoZipError
    /\ temps = {}

\* Lines 35-57 of the outermost call extract_zip(path, 0).
ZipEnter ==
    /\ zpc = "call"
    /\ LET o == EnterOutcome(archive, 0, topKind, 0)
       IN  IF o = "ok"
           THEN /\ zstack' = <<NewFrame(archive, 0, 0)>>
                /\ zpc' = "walk"
                /\ UNCHANGED zerror
           ELSE /\ zpc' = "raised"
                /\ zerror' = [kind |-> o, at |-> 0, depth |-> 0]
                /\ UNCHANGED zstack
    /\ UNCHANGED <<topKind, archive, zresult, temps, zipRest>>

\* Lines 59-100: one pass of the for loop of the innermost active call.  An
\* exception leaves every active call at once: none of them catches it.
ZipMember ==
    /\ zpc = "walk"
    /\ LET d == Len(zstack)
           f == zstack[d]
       IN  /\ f.i <= Len(f.namelist)
           /\ LET item == f.namelist[f.i]
                  kind == archive[item].kind
                  listed == [f EXCEPT !.files_collected = Append(@, FileInfo(archive, item))]
              IN  IF Ext(kind) \notin ALLOWED_EXTENSIONS
                  THEN /\ zstack' = [zstack EXCEPT ![d].i = @ + 1]
                       /\ UNCHANGED <<zpc, zerror, temps>>
                  ELSE /\ temps' = temps \cup {item}
                       /\ IF kind = "unreadable"
                          THEN /\ zpc' = "raised"
                               /\ zerror' = [kind |-> "read", at |-> item, depth |-> f.depth]
                               /\ UNCHANGED zstack
                          ELSE IF kind \notin ZipKinds
                          THEN /\ zstack' = [zstack EXCEPT ![d] =
                                    [listed EXCEPT !.combined_text = @ \o LeafText(archive, item),
                                                   !.i = @ + 1]]
                               /\ UNCHANGED <<zpc, zerror>>
                          ELSE LET o == EnterOutcome(archive, item, kind, f.depth + 1)
                               IN  IF o = "ok"
                                   THEN /\ zstack' = Append([zstack EXCEPT ![d] = listed],
                                                            NewFrame(archive, item, f.depth + 1))
                                        /\ UNCHANGED <<zpc, zerror>>
                                   ELSE /\ zpc' = "raised"
                                        /\ zerror' = [kind |-> o, at |-> item,
                                                      depth |-> f.depth + 1]
                                        /\ UNCHANGED zstack
    /\ UNCHANGED <<topKind, archive, zresult, zipRest>>

\* Line 102: the innermost active call returns, to its caller (lines 98-100)
\* or, for the outermost call, to whoever called extract_zip.
ZipReturn ==
    /\ zpc = "walk"
    /\ LET d == Len(zstack)
           f == zstack[d]
       IN  /\ f.i > Len(f.namelist)
           /\ IF d = 1
              THEN /\ zresult' = [combined_text |-> f.combined_text,
                                  files_collected |-> f.files_collected]
                   /\ zstack' = <<>>
                   /\ zpc' = "done"
              ELSE /\ zstack' = [SubSeq(zstack, 1, d - 1) EXCEPT
                                    ![d - 1] = MergeNested(zstack[d - 1], f)]
                   /\ UNCHANGED <<zresult, zpc>>
    /\ UNCHANGED <<topKind, archive, zerror, temps, zipRest>>


\* -------------------------------- candidate_parser.parse_multiple_candidates
\* What lies behind a candidate URL: a ZIP with text, a ZIP that yields no
\* text, a URL download_file refuses or cannot fetch, and a file extract_zip
\* raises on (not a ZIP, too many members, nested too deep, unreadable member).
UrlKinds == {"zip_text", "zip_blank", "no_download", "bad_zip"}

\* Lines 38-94: the candidate structure, or the exception that leaves the call.
parse_candidate_zip(url, kind) ==
    CASE kind = "no_download" ->
             [raised |-> TRUE, error |-> "Invalid or unsupported file extension"]
      [] kind = "bad_zip" ->
             [raised |-> TRUE, error |-> "File is not a zip file"]
      [] OTHER ->
             [raised |-> FALSE,
              candidate |-> [name |-> url,
                             files |-> <<[name |-> "offer.txt", type |-> "txt"]>>,
                             full_text |-> IF kind = "zip_text" THEN "offer" ELSE "",
                             chunks |-> IF kind = "zip_text" THEN <<"offer">> ELSE <<>>]]

RECURSIVE UrlListsOfLen(_)
UrlListsOfLen(n) ==
    IF n = 0 THEN {<<>>}
    ELSE {Append(l, k) : l \in UrlListsOfLen(n - 1), k \in UrlKinds}

IdleCand ==
    /\ url_list = <<>>
    /\ cand_pc = "idle"
    /\ cand_i = 1
    /\ parsed = <<>>
    /\ cand_log = <<>>

InitCand ==
    /\ url_list \in UNION {UrlListsOfLen(n) : n \in 0..MaxCandidates}
    /\ cand_pc = "loop"
    /\ cand_i = 1
    /\ parsed = <<>>
    /\ cand_log = <<>>

\* Lines 108-114: one pass of the for loop.
ParseNextCandidate ==
    /\ cand_pc = "loop"
    /\ cand_i <= Len(url_list)
    /\ LET r == parse_candidate_zip(cand_i, url_list[cand_i])
       IN  IF r.raised
           THEN /\ cand_log' = Append(cand_log, [url |-> cand_i, error |-> r.error])
                /\ UNCHANGED parsed
           ELSE /\ parsed' = Append(parsed, r.candidate)
                /\ UNCHANGED cand_log
    /\ cand_i' = cand_i + 1
    /\ UNCHANGED <<url_list, cand_pc, candRest>>

\* Lines 116-117
ReturnCandidates ==
    /\ cand_pc = "loop"
    /\ cand_i > Len(url_list)
    /\ cand_pc' = "done"
    /\ UNCHANGED <<url_list, cand_i, parsed, cand_log, candRest>>

\* ------------------------------- main.upload_file and main.safe_extract_zip
\* SAFE LIMITS of main.py (lines 22-25); main.py has its own MAX_ZIP_FILES and
\* CHUNK_SIZE, apart from those of config.py.
MAX_ZIP_SIZE_MB == 40
MAIN_MAX_ZIP_FILES == 30
MAX_TEXT_SIZE == 300000
MAIN_CHUNK_SIZE == 50000
TRIM_SIZE == 50000

\* len() of the text a document or a ZIP member decodes to
TextLengths == {0, 100000, 300000, 400000}

\* A ZIP member: z.extract fails on it, or it decodes to a text of some length.
ZipMembers ==
    {[extractable |-> FALSE, chars |-> 0]}
    \cup {[extractable |-> TRUE, chars |-> n] : n \in TextLengths}

RECURSIVE MembersOfLen(_)
MembersOfLen(n) ==
    IF n = 0 THEN {<<>>}
    ELSE {Append(l, m) : l \in MembersOfLen(n - 1), m \in ZipMembers}

\* The uploads explored: a file over MAX_ZIP_SIZE_MB, a file with a suffix
\* upload_file refuses, a PDF, a file named .zip that is not a ZIP, a ZIP that
\* lists more than MAIN_MAX_ZIP_FILES names, and the ZIPs of up to MaxNames
\* members.
Uploads ==
    {[suffix |-> ".zip", size_mb |-> MAX_ZIP_SIZE_MB + 1, is_zip |-> TRUE,
      names |-> 0, members |-> <<>>, chars |-> 0]}
    \cup {[suffix |-> ".txt", size_mb |-> 1, is_zip |-> FALSE,
           names |-> 0, members |-> <<>>, chars |-> 0]}
    \cup {[suffix |-> ".pdf", size_mb |-> 1, is_zip |-> FALSE,
           names |-> 0, members |-> <<>>, chars |-> n] : n \in TextLengths}
    \cup {[suffix |-> ".zip", size_mb |-> 1, is_zip |-> FALSE,
           names |-> 0, members |-> <<>>, chars |-> 0]}
    \cup {[suffix |-> ".zip", size_mb |-> 1, is_zip |-> TRUE,
           names |-> MAIN_MAX_ZIP_FILES + 1, members |-> <<>>, chars |-> 0]}
    \cup UNION {{[suffix |-> ".zip", size_mb |-> 1, is_zip |-> TRUE,
                  names |-> n, members |-> l, chars |-> 0] : l \in MembersOfLen(n)}
                : n \in 0..MaxNames}

RECURSIVE SumSeq(_)
SumSeq(l) == IF l = <<>> THEN 0 ELSE Head(l) + SumSeq(Tail(l))

\* len("\n".join(final_text)) (line 158)
JoinedLen(l) == IF l = <<>> THEN 0 ELSE SumSeq(l) + Len(l) - 1

\* len(text[:n])
HeadLen(chars, n) == IF chars > n THEN n ELSE chars

\* len(split_text_into_chunks(text)) (lines 53-56)
split_text_into_chunks(chars) == (chars + MAIN_CHUNK_SIZE - 1) \div MAIN_CHUNK_SIZE

\* Lines 406-416; result, icon, confidence, summary and final_reason are those
\* of combine_chunk_results, chunks is the list of analyze_chunk results.
OkResponse(u, nchunks) ==
    [status |-> "OK", file_type |-> u.suffix,
     result |-> "final.result", icon |-> "final.icon",
     confidence |-> "final.confidence", summary |-> "final.summary",
     final_reason |-> "final.final_reason", chunks |-> nchunks]

ErrorResponse(msg) == [error |-> msg, status_code |-> 400]

NoJsonResponse == [status |-> "none"]

IdleExtract ==
    /\ upload = [suffix |-> ".zip", size_mb |-> 1, is_zip |-> TRUE,
                 names |-> 0, members |-> <<>>, chars |-> 0]
    /\ sx_pc = "idle"
    /\ sx_i = 1
    /\ total_size = 0
    /\ final_text = <<>>
    /\ extracted_len = 0
    /\ text_len = 0
    /\ response = NoJsonResponse

InitExtract ==
    /\ upload \in Uploads
    /\ sx_pc = "received"
    /\ sx_i = 1
    /\ total_size = 0
    /\ final_text = <<>>
    /\ extracted_len = 0
    /\ text_len = 0
    /\ response = NoJsonResponse

\* upload_file lines 353-386, and for a ZIP safe_extract_zip lines 102-115.
ReceiveUpload ==
    /\ sx_pc = "received"
    /\ IF upload.size_mb > MAX_ZIP_SIZE_MB
       THEN /\ response' = ErrorResponse("ZIP too large")
            /\ sx_pc' = "responded"
            /\ UNCHANGED extracted_len
       ELSE IF upload.suffix = ".zip"
       THEN /\ sx_pc' = IF upload.is_zip /\ upload.names <= MAIN_MAX_ZIP_FILES
                        THEN "zip_loop" ELSE "extracted"
            /\ UNCHANGED <<response, extracted_len>>
       ELSE IF upload.suffix \in {".pdf", ".docx", ".edoc"}
       THEN /\ extracted_len' = upload.chars
            /\ sx_pc' = "extracted"
            /\ UNCHANGED response
       ELSE /\ response' = ErrorResponse("Unsupported format")
            /\ sx_pc' = "responded"
            /\ UNCHANGED extracted_len
    /\ UNCHANGED <<upload, sx_i, total_size, final_text, text_len, sxRest>>

\* safe_extract_zip lines 117-156: one pass of the for loop.
SafeExtractMember ==
    /\ sx_pc = "zip_loop"
    /\ sx_i <= Len(upload.members)
    /\ LET m == upload.members[sx_i]
       IN  IF ~m.extractable
           THEN /\ sx_i' = sx_i + 1
                /\ UNCHANGED <<total_size, final_text, sx_pc, extracted_len>>
           ELSE /\ total_size' = total_size + m.chars
                /\ IF total_size + m.chars > MAX_TEXT_SIZE
                   THEN /\ final_text' = Append(final_text, HeadLen(m.chars, TRIM_SIZE))
                        /\ extracted_len' =
                               JoinedLen(Append(final_text, HeadLen(m.chars, TRIM_SIZE)))
                        /\ sx_pc' = "extracted"
                        /\ UNCHANGED sx_i
                   ELSE /\ final_text' = Append(final_text, m.chars)
                        /\ sx_i' = sx_i + 1
                        /\ UNCHANGED <<sx_pc, extracted_len>>
    /\ UNCHANGED <<upload, text_len, response, sxRest>>

\* safe_extract_zip lines 117, 158-163: the for loop is over.
SafeExtractReturn ==
    /\ sx_pc = "zip_loop"
    /\ sx_i > Len(upload.members)
    /\ extracted_len' = JoinedLen(final_text)
    /\ sx_pc' = "extracted"
    /\ UNCHANGED <<upload, sx_i, total_size, final_text, text_len, response, sxRest>>

\* upload_file lines 388-421.
Respond ==
    /\ sx_pc = "extracted"
    /\ text_len' = HeadLen(extracted_len, MAX_TEXT_SIZE)
    /\ response' = OkResponse(upload,
                              split_text_into_chunks(HeadLen(extracted_len, MAX_TEXT_SIZE)))
    /\ sx_pc' = "responded"
    /\ UNCHANGED <<upload, sx_i, total_size, final_text, extracted_len, sxRest>>

\* ------------------------------------------------------------ specifications
IdleExt == IdleZip /\ IdleCand /\ IdleExtract

Init ==
    \/ InitCompare /\ IdleUpload /\ IdleChunker /\ IdleExt
    \/ IdleCompare /\ InitUpload /\ IdleChunker /\ IdleExt

InitChunk == IdleCompare /\ IdleUpload /\ InitChunker /\ IdleExt

InitZipWalk == IdleCompare /\ IdleUpload /\ IdleChunker /\ InitZip /\ IdleCand /\ IdleExtract

NextZip == ZipEnter \/ ZipMember \/ ZipReturn

SpecZip == InitZipWalk /\ [][NextZip]_vars

InitCandidates ==
    IdleCompare /\ IdleUpload /\ IdleChunker /\ IdleZip /\ InitCand /\ IdleExtract

NextCand == ParseNextCandidate \/ ReturnCandidates

SpecCand == InitCandidates /\ [][NextCand]_vars

InitExtraction ==
    IdleCompare /\ IdleUpload /\ IdleChunker /\ IdleZip /\ IdleCand /\ InitExtract

NextExtract == ReceiveUpload \/ SafeExtractMember \/ SafeExtractReturn \/ Respond

SpecExtract == InitExtraction /\ [][NextExtract]_vars

NextChunk == ChunkEnter \/ ChunkStep \/ ChunkReturn

InitChunkWide ==
    IdleCompare /\ IdleUpload /\ (InitChunker \/ InitChunkerWide) /\ IdleExt

SpecChunkWide == InitChunkWide /\ [][NextChunk]_vars

SpecChunk == InitChunk /\ [][NextChunk]_vars

Next == EvaluateNext \/ ReturnEvaluation \/ AnalyzeNext \/ CombineResults

Spec == Init /\ [][Next]_vars

\* =================================================================== claims
WellTyped(recs) == \A k \in 1..Len(recs) : recs[k].status \in VerdictStatuses

Has(recs, x) == \E k \in 1..Len(recs) : recs[k].status = x

Dominant(recs) ==
    IF Has(recs, "red") THEN "red" ELSE IF Has(recs, "yellow") THEN "yellow" ELSE "green"

\* C1: over verdicts whose status is green, yellow or red, the status
\* evaluate_candidate returns is red if any finding is red, else yellow if any
\* is yellow, else green (also for no findings); the same holds of the result
\* of combine_chunk_results over the chunk verdicts.
C1_AggregationDominance ==
    /\ (pc = "done" /\ WellTyped(evaluation.findings))
          => evaluation.status = Dominant(evaluation.findings)
    /\ (upc = "done") => final.result = Dominant(chunk_results)

C1_Witness ==
    /\ pc = "done"
    /\ WellTyped(evaluation.findings)
    /\ Has(evaluation.findings, "green")
    /\ Has(evaluation.findings, "yellow")
    /\ Has(evaluation.findings, "red")
    /\ evaluation.status = "red"

Perms(n) == {f \in [1..n -> 1..n] : \A a, b \in 1..n : a # b => f[a] # f[b]}

Permuted(seq, f) == [k \in 1..Len(seq) |-> seq[f[k]]]

\* C2: running the aggregation of evaluate_candidate over any permutation of
\* the findings gives the status, confidence and green/yellow/red counts that
\* were returned.
C2_OrderIndependence ==
    (pc = "done") =>
        \A f \in Perms(Len(evaluation.findings)) :
            Aggregate(Permuted(evaluation.findings, f))
              = [status |-> evaluation.status, confidence |-> evaluation.confidence,
                 green |-> evaluation.green, yellow |-> evaluation.yellow,
                 red |-> evaluation.red]

C2_Witness ==
    /\ pc = "done"
    /\ Len(evaluation.findings) = 3
    /\ evaluation.findings[1].status = "yellow"
    /\ evaluation.findings[2].status = "green"
    /\ evaluation.findings[3].status = "red"

GreenOf(recs) == Count(StatusesOf(recs), "green")

AllGreen(recs) == \A k \in 1..Len(recs) : recs[k].status = "green"

\* C3 as stated: the confidence is exactly green / max(1, total).
C3_ExactQuotient ==
    /\ (pc = "done") =>
          evaluation.confidence * Max2(1, Len(evaluation.findings))
            = 1000 * GreenOf(evaluation.findings)
    /\ (upc = "done") =>
          final.confidence * Max2(1, Len(chunk_results))
            = 1000 * GreenOf(chunk_results)

\* C3 (amended): the confidence is green / max(1, total) rounded to three
\* decimals, recomputed from the findings alone; it is 0 for no findings, and
\* for the list lengths explored it is 1 exactly when a non-empty list is all
\* green.
C3_RoundedQuotient ==
    /\ (pc = "done") =>
          /\ evaluation.confidence
                = Round3(GreenOf(evaluation.findings),
                         Max2(1, Len(evaluation.findings)))
          /\ (evaluation.findings = <<>>) => evaluation.confidence = 0
          /\ (evaluation.confidence = 1000)
                <=> (evaluation.findings # <<>> /\ AllGreen(evaluation.findings))
    /\ (upc = "done") =>
          /\ final.confidence
                = Round3(GreenOf(chunk_results), Max2(1, Len(chunk_results)))
          /\ (chunk_results = <<>>) => final.confidence = 0
          /\ (final.confidence = 1000)
                <=> (chunk_results # <<>> /\ AllGreen(chunk_results))

C3_Witness ==
    /\ pc = "done"
    /\ Len(evaluation.findings) = 3
    /\ GreenOf(evaluation.findings) = 2
    /\ evaluation.confidence = 667

\* The classifier call of a unit failed: it raised, its output did not parse,
\* or what parsed is not a verdict with status green, yellow or red.
Raised(resp) == resp.kind \in {"raise", "notjson"}

ClassifierFailed(resp) == resp.kind # "dict" \/ resp.status \notin VerdictStatuses

IsFailSafe(rec) == rec.status = "yellow" /\ rec.issue = "AI evaluation error"

CountedAs(x) ==
    Cardinality({k \in 1..Len(results) :
                    ~ClassifierFailed(outcomes[k]) /\ results[k].status = x})

\* C4: every unit whose classifier call failed is recorded as the synthetic
\* yellow verdict, adds nothing to the green or red counter, and no exception
\* leaves the evaluation of a unit.
C4_FailSafe ==
    /\ pc # "raised"
    /\ \A k \in 1..Len(results) :
          ClassifierFailed(outcomes[k]) => IsFailSafe(results[k])
    /\ green = CountedAs("green")
    /\ red = CountedAs("red")

\* C5: when every classifier call raised, every finding is yellow with a
\* non-empty reason.note; and a returned evaluation with a failed unit is
\* never green.
C5_AlwaysFailingClassifier ==
    /\ (\A k \in 1..Len(outcomes) : Raised(outcomes[k]))
          => \A k \in 1..Len(results) :
                results[k].status = "yellow" /\ results[k].note # ""
    /\ (pc = "done" /\ \E k \in 1..Len(outcomes) : ClassifierFailed(outcomes[k]))
          => evaluation.status # "green"

C7_ChunkCoverage ==
    /\ (windows # <<>>) => windows[1].start = 0
    /\ \A k \in 1..(Len(windows) - 1) :
          /\ windows[k].start < windows[k + 1].start
          /\ windows[k + 1].start <= windows[k].end
    /\ (cpc = "done") =>
          \A o \in 0..(length - 1) :
              \E k \in 1..Len(windows) : windows[k].start <= o /\ o < windows[k].end

\* C8: every iteration of the loop leaves start strictly greater than it
\* found it, which is what makes the loop end.
C8_ForwardProgress == [][ChunkStep => start' > start]_vars

CeilDiv(a, b) == (a + b - 1) \div b

StepBound == CeilDiv(length, CHUNK_SIZE - CHUNK_OVERLAP)

Shrunk(w) == w.end - w.start < CHUNK_SIZE

\* C9 as stated: the loop never runs more than
\* ceil(len(T) / (target_size - overlap)) iterations.
C9_StepBound == (cpc \in {"loop", "done"}) => Len(windows) <= StepBound

\* C9 (amended): a run in which no window was shrunk to a boundary makes at
\* most ceil(len(T) / (target_size - overlap)) iterations.
C9_StepBoundUnshrunk ==
    (cpc \in {"loop", "done"} /\ \A k \in 1..Len(windows) : ~Shrunk(windows[k]))
        => Len(windows) <= StepBound

C9_Witness ==
    /\ cpc = "done"
    /\ \A k \in 1..Len(windows) : ~Shrunk(windows[k])
    /\ RFind(text, ".") >= 0
    /\ Len(windows) = 3
    /\ StepBound = 3

\* C10: a text shorter than target_size gives exactly one chunk, the trimmed
\* text; an empty or whitespace-only text gives no chunk.
C10_ShortInput ==
    (cpc = "done") =>
        /\ (0 < Len(text) /\ Len(text) < CHUNK_SIZE) => chunks = <<text>>
        /\ (text = <<>>) => chunks = <<>>

\* ---------------------------------------------------------- extract_zip
ZipEnded == zpc \in {"done", "raised"}

FlagsTruncation(r) == "truncated" \in DOMAIN r /\ r.truncated

\* the walk has come to a nested ZIP that lies deeper than MAX_ZIP_DEPTH
ReachedTooDeep ==
    \E k \in temps : archive[k].kind \in ZipKinds /\ archive[k].level > MAX_ZIP_DEPTH

\* C11: when the walk comes to a nested archive that lies deeper than the
\* maximum depth, extract_zip does not fail: it leaves that archive unopened,
\* and the result it returns is marked truncated.
C11_DepthLimitRecoverable ==
    ReachedTooDeep =>
        /\ zpc # "raised"
        /\ zpc = "done" => FlagsTruncation(zresult)

\* C12: when the archive lists more members than the maximum, extract_zip
\* does not fail: it returns a result, marked truncated.
C12_CountLimitRecoverable ==
    (topKind = "zip_big" /\ zpc # "call") =>
        /\ zpc # "raised"
        /\ zpc = "done" => FlagsTruncation(zresult)

ListedNames(r) == {r.files_collected[k].name : k \in 1..Len(r.files_collected)}

\* C13: a member whose bytes cannot be read, or a nested archive that cannot
\* be opened, never makes extract_zip raise, and a member whose decoder failed
\* is in the returned member list without any text.
C13_EntryIsolation ==
    /\ zpc = "raised" => ~(zerror.at # 0 /\ zerror.kind \in {"read", "BadZipFile"})
    /\ zpc = "done" =>
          \A k \in DOMAIN archive :
              archive[k].kind \in {"pdf_bad", "unreadable", "zip_bad"}
                  => k \in ListedNames(zresult)

\* What a depth-first reading of the archive gives: for every member in
\* listing order its own contribution, then, for a ZIP, that of its members.
RECURSIVE DepthFirst(_, _, _)
DepthFirst(a, names, what) ==
    IF names = <<>> THEN <<>>
    ELSE LET m == Head(names)
             own == IF what = "text"
                    THEN (IF a[m].kind = "txt" THEN <<m>> ELSE <<>>)
                    ELSE (IF Ext(a[m].kind) \in ALLOWED_EXTENSIONS THEN <<m>> ELSE <<>>)
             below == IF a[m].kind = "zip"
                      THEN DepthFirst(a, Namelist(a, m), what) ELSE <<>>
         IN  own \o below \o DepthFirst(a, Tail(names), what)

\* C14: the text extract_zip returns is the leaf texts in listing order, a
\* nested archive's text standing where that archive is listed, and the member
\* list is every entry with an allowed extension in that same order.
C14_DepthFirstOrder ==
    zpc = "done" =>
        /\ zresult.combined_text = DepthFirst(archive, Namelist(archive, 0), "text")
        /\ [k \in 1..Len(zresult.files_collected) |-> zresult.files_collected[k].name]
               = DepthFirst(archive, Namelist(archive, 0), "members")

\* A text file, then a ZIP holding a text file, then a text file again.
C14_Witness ==
    /\ zpc = "done"
    /\ Len(archive) = 4
    /\ archive[2].kind = "zip" /\ archive[3].level = 2 /\ archive[4].level = 1
    /\ zresult.combined_text = <<1, 3, 4>>

\* C16: when extract_zip has ended, by return or by exception, no temporary
\* file it created for a member is left.
C16_TempFilesReleased == ZipEnded => temps = {}

\* ------------------------------------------------ parse_multiple_candidates
Fails(kind) == kind \in {"no_download", "bad_zip"}

\* C15: the output of the candidate loop has exactly one entry per input
\* candidate, in input order, and the entry of a candidate whose processing
\* failed is a red evaluation that carries the failure text.
C15_PerCandidateIsolation ==
    cand_pc = "done" =>
        /\ Len(parsed) = Len(url_list)
        /\ \A k \in 1..Len(url_list) :
              /\ parsed[k].name = k
              /\ Fails(url_list[k]) =>
                    /\ "status" \in DOMAIN parsed[k]
                    /\ parsed[k].status = "red"

\* ------------------------------------------------ candidate state machine
\* Where a candidate stands while evaluate_candidate runs on it: the loop over
\* the requirements is CLASSIFYING, the final decision is taken on the way to
\* DONE, and an exception that leaves the call is ERROR.
CandidateState ==
    CASE pc = "loop" -> "CLASSIFYING"
      [] pc = "done" -> "DONE"
      [] pc = "raised" -> "ERROR"
      [] OTHER -> "PENDING"

AllowedMoves ==
    {<<"PENDING", "EXTRACTING">>, <<"EXTRACTING", "CHUNKING">>,
     <<"EXTRACTING", "CLASSIFYING">>, <<"CHUNKING", "CLASSIFYING">>,
     <<"EXTRACTING", "ERROR">>,
     <<"CLASSIFYING", "AGGREGATING">>, <<"CLASSIFYING", "DONE">>,
     <<"AGGREGATING", "DONE">>}

\* C17: a candidate only moves PENDING, EXTRACTING, CHUNKING/CLASSIFYING,
\* AGGREGATING, DONE; ERROR is entered from EXTRACTING only, so nothing the
\* classifier answers during CLASSIFYING ends the evaluation in ERROR.
C17_CandidateStateMachine ==
    [][CandidateState' # CandidateState
          => <<CandidateState, CandidateState'>> \in AllowedMoves]_vars

\* ------------------------------------------------------ the two aggregators
\* the statuses the counters of evaluate_candidate see (line 129)
SeenStatuses(recs) == [k \in 1..Len(recs) |-> [status |-> GetStatus(recs[k])]]

\* C20: over the same list of verdict statuses, whatever strings they are,
\* combine_chunk_results and the final decision of evaluate_candidate give
\* the same status and the same confidence, and green is given only when
\* every verdict is green.
C20_AggregatorsAgree ==
    /\ upc = "done" =>
          /\ final.result = Aggregate(chunk_results).status
          /\ final.confidence = Aggregate(chunk_results).confidence
          /\ final.result = "green" => AllGreen(chunk_results)
    /\ pc = "done" =>
          /\ evaluation.status = combine_chunk_results(SeenStatuses(results), TRUE).result
          /\ evaluation.confidence
                 = combine_chunk_results(SeenStatuses(results), TRUE).confidence
          /\ evaluation.status = "green" => AllGreen(SeenStatuses(results))

\* ------------------------------------------------------ upload extraction
\* a resource limit cut the extraction short: the ZIP listed too many names,
\* the texts of its members passed MAX_TEXT_SIZE, or the extracted text did
LimitHit ==
    \/ upload.suffix = ".zip" /\ upload.is_zip /\ upload.names > MAIN_MAX_ZIP_FILES
    \/ total_size > MAX_TEXT_SIZE
    \/ extracted_len > MAX_TEXT_SIZE

\* C18: when a resource limit was hit during the extraction, the report that
\* is returned says so (truncated = true).
C18_TruncationNeverSilent ==
    (sx_pc = "responded" /\ "error" \notin DOMAIN response /\ LimitHit)
        => FlagsTruncation(response)

\* ----------------------------------------------------- chunk_text windows
\* the positions of the full stops and newlines of the window that starts at s
BoundariesIn(s) ==
    {j \in s..(s + CHUNK_SIZE - 1) : j < length /\ text[j + 1] \in {".", "\n"}}

\* the right edge comes before the end of the text and the rightmost boundary
\* character lies at an index greater than 0.6 * target_size of the window
CutsAtBoundary(s) ==
    /\ s + CHUNK_SIZE < length
    /\ BoundariesIn(s) # {}
    /\ 5 * (SetMax(BoundariesIn(s)) - s) > 3 * CHUNK_SIZE

EndOf(s) == IF CutsAtBoundary(s) THEN SetMax(BoundariesIn(s)) + 1 ELSE s + CHUNK_SIZE

WindowEnds == \A k \in 1..Len(windows) : windows[k].end = EndOf(windows[k].start)

WindowLengths ==
    \A k \in 1..(Len(windows) - 1) :
        /\ 5 * (windows[k].end - windows[k].start) > 3 * CHUNK_SIZE
        /\ windows[k].end - windows[k].start <= CHUNK_SIZE

C21_CountConsistency ==
    pc = "done" =>
        /\ evaluation.green + evaluation.yellow + evaluation.red
               = evaluation.requirements_total
        /\ evaluation.requirements_total = Len(evaluation.findings)
        /\ Len(evaluation.findings) = Len(requirements)
        /\ \A k \in 1..Len(requirements) :
               /\ evaluation.findings[k].category = requirements[k][1]
               /\ evaluation.findings[k].requirement = requirements[k][2]
        /\ evaluation.green = Count(StatusesOf(evaluation.findings), "green")
        /\ evaluation.yellow = Count(StatusesOf(evaluation.findings), "yellow")
        /\ evaluation.red = Count(StatusesOf(evaluation.findings), "red")
====
